---- MODULE Spec2Model ----
(***************************************************************************)
(* Model of plots/experiments/mean_std_plots_quad_compare_arch.py:         *)
(* extract (key validation, step alignment), plot (aggregation, clip),     *)
(* aggregate (result cache) and main (the loop over groups).               *)
(*                                                                         *)
(* Values are integers.  Every logged value is drawn from even integers,   *)
(* so the midpoint (a + b) / 2 of line 148 is an integer and \div 2 is     *)
(* exact.  The grid is range(0, TOTAL_STEP, PLOT_STEP) as in the source,   *)
(* with the two constants scaled down.                                     *)
(***************************************************************************)
EXTENDS Integers, Sequences, FiniteSets, TLC

VARIABLES
    pc,               \* position of the modelled invocation
    experiments,      \* extract's argument: the runs of one group
    x_steps,          \* extract: x_steps (line 129), one step tuple per row
    values,           \* extract: values (line 126), one value list per row
    interpolated_y,   \* extract: outcome of the row loop, lines 131-153
    extracted,        \* outcome of extract: the mapping it returns, or what it raises
    y_mean,           \* plot: y_mean (line 221), one fraction per grid step
    y_var,            \* plot: the square of y_std (line 222), one fraction per grid step
    y_plus_std,       \* plot: y_plus_std (lines 223, 229, 235)
    y_minus_std,      \* plot: y_minus_std (lines 224, 230, 236)
    params,           \* plot: clip_max and clip_min of the PLOTS entry
    clips,            \* SpecClip: how many times the clip step ran
    all_experiment_dirs,  \* main: the runs found under every group's subpath
    cache_dirs,       \* file system: the groups whose cache directory exists
    cache_files,      \* file system: every group's <subpath>.pickle
    i,                \* main: index of the loop of line 321 (from 1)
    interpolated_keys,  \* aggregate: the mapping it loaded or computed last
    raised,           \* main: the exception that ended the invocation, or "none"
    saved,            \* main: plt.savefig (line 339) ran in this invocation
    aggregated,       \* history: the groups aggregate was called for in this invocation
    extract_called,   \* history: the last call of aggregate called extract
    stored            \* history: per group, the mapping computed and stored since
                      \*          its cache directory last came into existence

clipVars == <<y_plus_std, y_minus_std, params, clips>>
groupVars == <<experiments, x_steps, values, interpolated_y, extracted, y_mean, y_var,
               clipVars>>
mainVars == <<all_experiment_dirs, cache_dirs, cache_files, i, interpolated_keys,
              raised, saved, aggregated, extract_called, stored>>
vars == <<pc, groupVars, mainVars>>

-----------------------------------------------------------------------------
(* Bounds and scaled constants *)

\* Largest number of retained (post-truncation) samples of a row in SpecAlign.
MaxLen == 4

\* PLOT_STEP = int(5e6) and TOTAL_STEP = int(1e9 + 10000) in the source,
\* scaled down so that range(0, TOTAL_STEP, PLOT_STEP) = [0, 150, 300].
PLOT_STEP == 150
TOTAL_STEP == 301

\* Steps and values a sample may carry in SpecAlign.
StepValues == {0, 100, 200, 300}
SampleValues == {10, 12, 14, 16}

\* The two warm-up samples that lines 137-138 discard.
WarmSteps == <<0, 0>>
WarmValues == <<10, 10>>

-----------------------------------------------------------------------------
(* Helpers *)

Min(a, b) == IF a < b THEN a ELSE b

SeqsUpTo(S, n) == UNION {[1..k -> S] : k \in 0..n}

\* Python s[lo:hi] for 0 <= lo, 0 <= hi.
Slice(s, lo, hi) == SubSeq(s, lo + 1, Min(hi, Len(s)))

\* tuple(range(0, stop, step)) for stop > 0, step > 0.
Range(stop, step) == [k \in 1..((stop - 1) \div step + 1) |-> (k - 1) * step]

\* Outcome of a computation that may raise.
Ok(v) == [err |-> "none", val |-> v]
Raise(e) == [err |-> e, val |-> <<>>]

\* clip_max or clip_min of a PLOTS entry: absent (params.get gives None) or
\* a number, written as a fraction.
None == [set |-> FALSE, num |-> 0, den |-> 1]
Number(n) == [set |-> TRUE, num |-> n, den |-> 1]

\* The variables of plot's clip step, where it is not modelled.
ClipUnused ==
    /\ y_plus_std = <<>>
    /\ y_minus_std = <<>>
    /\ params = [clip_max |-> None, clip_min |-> None]
    /\ clips = 0

\* The variables of main and aggregate, in the specifications that model a
\* single call of extract or plot.
MainUnused ==
    /\ all_experiment_dirs = <<>>
    /\ cache_dirs = {}
    /\ cache_files = <<>>
    /\ i = 0
    /\ interpolated_keys = <<>>
    /\ raised = "none"
    /\ saved = FALSE
    /\ aggregated = <<>>
    /\ extract_called = FALSE
    /\ stored = <<>>

-----------------------------------------------------------------------------
(* extract, lines 133-153: the row of one run *)

\* Variant of AdvanceCursor that stops one sample early (len - 2 for len - 1).
RECURSIVE AdvanceCursorStopsEarly(_, _, _)
AdvanceCursorStopsEarly(xs, idx, x_idx) ==
    IF idx < Len(xs) - 2 /\ xs[idx + 1] < x_idx
    THEN AdvanceCursorStopsEarly(xs, idx + 1, x_idx)
    ELSE idx

\* Line 142-143: while idx < len(x_steps[i]) - 1 and x_steps[i][idx] < x_idx.
\* idx is 0-based as in the source.
RECURSIVE AdvanceCursor(_, _, _)
AdvanceCursor(xs, idx, x_idx) ==
    IF idx < Len(xs) - 1 /\ xs[idx + 1] < x_idx
    THEN AdvanceCursor(xs, idx + 1, x_idx)
    ELSE idx

\* Variant of InterpolatedValue that averages the two samples around the grid
\* step (the one before the cursor and the one at it).
InterpolatedValueBracketing(vals, idx, x_idx) ==
    IF x_idx = 0
    THEN vals[idx + 1]
    ELSE IF idx < Len(vals) - 1 /\ idx >= 1
         THEN (vals[idx] + vals[idx + 1]) \div 2
         ELSE vals[idx + 1]

\* Lines 145-150, for a non-empty vals.
InterpolatedValue(vals, idx, x_idx) ==
    IF x_idx = 0
    THEN vals[idx + 1]
    ELSE IF idx < Len(vals) - 1
         THEN (vals[idx + 1] + vals[idx + 2]) \div 2
         ELSE vals[idx + 1]

\* Lines 141-152: the loop over the grid x; idx is carried from one grid step
\* to the next (it is set to 0 once, line 134).
RECURSIVE InterpolateFrom(_, _, _, _, _)
InterpolateFrom(xs, vals, x, k, idx) ==
    IF k > Len(x)
    THEN <<>>
    ELSE LET j == AdvanceCursor(xs, idx, x[k])
         IN  <<InterpolatedValue(vals, j, x[k])>>
                 \o InterpolateFrom(xs, vals, x, k + 1, j)

\* Lines 136-138: drop the first two samples, cut both to the shorter length.
Truncate(s, x_steps_i, values_i) ==
    Slice(s, 2, Min(Len(x_steps_i), Len(values_i)))

\* Lines 134-153 for one row.  values[i][idx] on an empty list raises
\* IndexError at the first grid step (the grid is never empty).
InterpolateRow(x_steps_i, values_i, x) ==
    LET xs   == Truncate(x_steps_i, x_steps_i, values_i)
        vals == Truncate(values_i, x_steps_i, values_i)
    IN  IF Len(vals) = 0 /\ Len(x) > 0
        THEN Raise("IndexError")
        ELSE Ok(InterpolateFrom(xs, vals, x, 1, 0))

\* Lines 131-153: interpolated_y, one row per run; the first row that raises
\* ends the loop.
InterpolatedY(x_steps_, values_, x) ==
    LET rows == [n \in 1..Len(values_) |->
                    InterpolateRow(x_steps_[n], values_[n], x)]
    IN  IF \E n \in 1..Len(values_) : rows[n].err # "none"
        THEN Raise("IndexError")
        ELSE Ok([n \in 1..Len(values_) |-> rows[n].val])

\* Lines 102-105, 115: the grid shared by all runs and keys.
Grid == Range(TOTAL_STEP, PLOT_STEP)

-----------------------------------------------------------------------------
(* extract, lines 71-129: the runs, their keys, the per-key lists *)

\* A run (one EventAccumulator's scalars) is a function from the run's keys
\* to the key's Items: a list of ScalarEvent tuples <<wall_time, step, value>>
\* in logged order.

\* PLOTS, lines 36-62: the entry of 0_aux/avg_rewraw_pos, coeff = -1/16 as a
\* fraction.  The other three entries go through the same loop body.
PLOTS == <<[key |-> "avg_rewraw_pos", coeff_num |-> -1, coeff_den |-> 16]>>

Keys(acc) == DOMAIN acc
HasKeys(acc) == Keys(acc) # {}

\* Lines 72-80: runs without scalar keys are filtered out.
ScalarAccumulators(experiments_) == SelectSeq(experiments_, HasKeys)

\* Lines 83-85: tuple(sorted(Keys())) is determined by the key set, which
\* stands for it.
AllKeys(accs) == [n \in 1..Len(accs) |-> Keys(accs[n])]

\* Variant of KeysMatch that only asks for at least one run with keys.
KeysMatchAnyRun(all_keys) == Len(all_keys) >= 1

\* Line 86: assert len(set(all_keys)) == 1.
KeysMatch(all_keys) ==
    Cardinality({all_keys[n] : n \in 1..Len(all_keys)}) = 1

\* Python's order on ScalarEvent tuples: lexicographic.
EventLess(a, b) ==
    \/ a[1] < b[1]
    \/ a[1] = b[1] /\ a[2] < b[2]
    \/ a[1] = b[1] /\ a[2] = b[2] /\ a[3] < b[3]

\* Python's order on lists of ScalarEvent: lexicographic, a proper prefix
\* first.
RECURSIVE EventsLessFrom(_, _, _)
EventsLessFrom(a, b, k) ==
    IF k > Len(a) THEN k <= Len(b)
    ELSE IF k > Len(b) THEN FALSE
    ELSE IF EventLess(a[k], b[k]) THEN TRUE
    ELSE IF EventLess(b[k], a[k]) THEN FALSE
    ELSE EventsLessFrom(a, b, k + 1)

EventsLess(a, b) == EventsLessFrom(a, b, 1)

\* sorted(scalar_events), line 97: stable insertion into a sorted list.
RECURSIVE InsertEvent(_, _)
InsertEvent(e, sorted) ==
    IF sorted = <<>> THEN <<e>>
    ELSE IF EventLess(e, Head(sorted)) THEN <<e>> \o sorted
    ELSE <<Head(sorted)>> \o InsertEvent(e, Tail(sorted))

RECURSIVE SortedEvents(_)
SortedEvents(scalar_events) ==
    IF scalar_events = <<>> THEN <<>>
    ELSE InsertEvent(scalar_events[Len(scalar_events)],
                     SortedEvents(SubSeq(scalar_events, 1, Len(scalar_events) - 1)))

\* sorted(all_scalar_events), line 98: the runs' event lists in list order.
RECURSIVE InsertRun(_, _)
InsertRun(r, sorted) ==
    IF sorted = <<>> THEN <<r>>
    ELSE IF EventsLess(r, Head(sorted)) THEN <<r>> \o sorted
    ELSE <<Head(sorted)>> \o InsertRun(r, Tail(sorted))

RECURSIVE SortedRuns(_)
SortedRuns(all_scalar_events) ==
    IF all_scalar_events = <<>> THEN <<>>
    ELSE InsertRun(all_scalar_events[Len(all_scalar_events)],
                   SortedRuns(SubSeq(all_scalar_events, 1, Len(all_scalar_events) - 1)))

StepsOf(scalar_events) == [k \in 1..Len(scalar_events) |-> scalar_events[k][2]]
ValuesOf(scalar_events) == [k \in 1..Len(scalar_events) |-> scalar_events[k][3]]

\* Lines 90-92: all_scalar_events_per_key[key], one Items list per run, in
\* the order of the runs.
AllScalarEvents(accs, key) == [n \in 1..Len(accs) |-> accs[n][key]]

\* Lines 95-100: x_per_key[key]: the steps of every run's sorted events, the
\* runs themselves taken in sorted order.
XPerKey(accs, key) ==
    LET sorted == SortedRuns(AllScalarEvents(accs, key))
    IN  [n \in 1..Len(sorted) |-> StepsOf(SortedEvents(sorted[n]))]

\* Lines 118-121: values_per_key[key]: the values of every run's events, in
\* logged order, the runs in the order given.
ValuesPerKey(accs, key) ==
    [n \in 1..Len(accs) |-> ValuesOf(AllScalarEvents(accs, key)[n])]

\* Lines 124-157 for PLOTS[tmp_id]: keys.index raises ValueError for a key
\* that was not logged; otherwise the rows of the key.
InterpolatedKey(accs, keys, tmp_id) ==
    IF PLOTS[tmp_id].key \notin keys
    THEN Raise("ValueError")
    ELSE InterpolatedY(XPerKey(accs, PLOTS[tmp_id].key),
                       ValuesPerKey(accs, PLOTS[tmp_id].key), Grid)

\* Lines 71-159.  The grid's assertion (lines 110-113) compares copies of one
\* tuple and always passes.  Items raises KeyError for a key a run lacks.
Extract(experiments_) ==
    LET accs     == ScalarAccumulators(experiments_)
        all_keys == AllKeys(accs)
        tmp_ids  == 1..Len(PLOTS)
    IN  IF ~KeysMatch(all_keys) THEN Raise("AssertionError")
        ELSE IF \E n \in 1..Len(accs) : ~(all_keys[1] \subseteq Keys(accs[n]))
        THEN Raise("KeyError")
        ELSE LET per_key == [t \in tmp_ids |-> InterpolatedKey(accs, all_keys[1], t)]
                 failing == {t \in tmp_ids : per_key[t].err # "none"}
             IN  IF failing # {}
                 THEN Raise(per_key[CHOOSE t \in failing :
                                        \A u \in failing : t <= u].err)
                 ELSE Ok([t \in tmp_ids |-> [x |-> Grid, y |-> per_key[t].val]])

-----------------------------------------------------------------------------
(* plot, lines 192-224: scaling, mean and standard deviation across runs *)

\* Values scaled by coeff (line 212) are kept as numerators over coeff_den;
\* a mean is the fraction [num, den], not reduced.  np.std is a square root:
\* the model keeps its square (the population variance), which determines
\* it.  No PLOTS entry sets 'mutate', so lines 215-217 do nothing.

RECURSIVE Sum(_)
Sum(s) == IF s = <<>> THEN 0 ELSE Head(s) + Sum(Tail(s))

\* Line 212: y_np *= coeff.
Scaled(y, params_) ==
    [n \in 1..Len(y) |-> [j \in 1..Len(y[n]) |-> y[n][j] * params_.coeff_num]]

Column(y_np, j) == [n \in 1..Len(y_np) |-> y_np[n][j]]
Squares(s) == [k \in 1..Len(s) |-> s[k] * s[k]]

\* Line 221: np.mean(y_np, axis=0).
YMean(interpolated_key, params_) ==
    LET y_np == Scaled(interpolated_key.y, params_)
    IN  [j \in 1..Len(interpolated_key.x) |->
            [num |-> Sum(Column(y_np, j)),
             den |-> Len(y_np) * params_.coeff_den]]

\* Line 222: np.std(y_np, axis=0), squared:
\* (n * sum(v^2) - sum(v)^2) / (n * coeff_den)^2.
YVar(interpolated_key, params_) ==
    LET y_np == Scaled(interpolated_key.y, params_)
        n    == Len(y_np)
    IN  [j \in 1..Len(interpolated_key.x) |->
            [num |-> n * Sum(Squares(Column(y_np, j)))
                       - Sum(Column(y_np, j)) * Sum(Column(y_np, j)),
             den |-> (n * params_.coeff_den) * (n * params_.coeff_den)]]

-----------------------------------------------------------------------------
(* SpecKeys and SpecExtract: extract on one group, then plot's statistics *)

\* Runs of a group in SpecKeys.
MaxKeyRuns == 3
\* Runs of a group and events of a run in SpecExtract.
MaxRuns == 2
MaxEvents == 4

KeyNames == {PLOTS[1].key, "avg_true_reward"}

\* SpecKeys: a run logs any subset of KeyNames; per key, three samples
\* (one retained) or two (none retained).
KeyLogs == { <<<<1, 0, 10>>, <<2, 100, 10>>, <<3, 200, 12>>>>,
             <<<<1, 0, 10>>, <<2, 100, 10>>>> }
KeyRuns == UNION {[K -> KeyLogs] : K \in SUBSET KeyNames}

\* SpecExtract: every run logs the plotted key alone.  Within a run wall
\* times and steps do not decrease; the two warm-up values are fixed
\* (values[i][2:] drops them; they only take part in the order of the events).
WallTimes == {1, 2}
RunSteps == {0, 200}
RunValues == {10, 12}

Ordered(n, S) == {s \in [1..n -> S] : \A k \in 1..(n - 1) : s[k] <= s[k + 1]}
LoggedValues(n) ==
    {v \in [1..n -> RunValues \cup {WarmValues[1]}] :
        \A k \in 1..n : IF k <= 2 THEN v[k] = WarmValues[k] ELSE v[k] \in RunValues}
DataLogs ==
    UNION {{[k \in 1..n |-> <<w[k], s[k], v[k]>>] :
                w \in Ordered(n, WallTimes), s \in Ordered(n, RunSteps),
                v \in LoggedValues(n)}
           : n \in 1..MaxEvents}
DataRuns == {[K \in {PLOTS[1].key} |-> log] : log \in DataLogs}

InitOfGroup ==
    /\ pc = "extract"
    /\ x_steps = <<>>
    /\ values = <<>>
    /\ interpolated_y = Ok(<<>>)
    /\ extracted = Raise("none")
    /\ y_mean = <<>>
    /\ y_var = <<>>
    /\ ClipUnused
    /\ MainUnused

InitKeys ==
    /\ experiments \in SeqsUpTo(KeyRuns, MaxKeyRuns)
    /\ InitOfGroup

InitExtract ==
    /\ experiments \in SeqsUpTo(DataRuns, MaxRuns)
    /\ experiments # <<>>
    /\ InitOfGroup

\* Whether extract got to the rows of PLOTS[1] (line 126): it returned, or a
\* row raised.
ReachesRows(outcome) == outcome.err \in {"none", "IndexError"}

\* extract(experiments), lines 71-159; x_steps, values and interpolated_y
\* are its locals for PLOTS[1] (lines 126-153).
ExtractGroup ==
    /\ pc = "extract"
    /\ extracted' = Extract(experiments)
    /\ pc' = IF extracted'.err = "none" THEN "extracted" ELSE "raised"
    /\ LET accs == ScalarAccumulators(experiments)
       IN  IF ReachesRows(extracted')
           THEN /\ x_steps' = XPerKey(accs, PLOTS[1].key)
                /\ values' = ValuesPerKey(accs, PLOTS[1].key)
                /\ interpolated_y' = InterpolatedY(x_steps', values', Grid)
           ELSE UNCHANGED <<x_steps, values, interpolated_y>>
    /\ UNCHANGED <<experiments, y_mean, y_var>>
    /\ UNCHANGED <<clipVars, mainVars>>

\* plot(0, interpolated_keys[key], ...), lines 192-224.
PlotGroup ==
    /\ pc = "extracted"
    /\ y_mean' = YMean(extracted.val[1], PLOTS[1])
    /\ y_var' = YVar(extracted.val[1], PLOTS[1])
    /\ pc' = "plotted"
    /\ UNCHANGED <<experiments, x_steps, values, interpolated_y, extracted>>
    /\ UNCHANGED <<clipVars, mainVars>>

NextExtract == ExtractGroup \/ PlotGroup

SpecKeys == InitKeys /\ [][NextExtract]_vars
SpecExtract == InitExtract /\ [][NextExtract]_vars

-----------------------------------------------------------------------------
(* SpecAlign: one row of extract's alignment loop *)

\* A logged sequence: at most two warm-up samples alone, or the two warm-up
\* samples followed by up to MaxLen retained ones.
RawSeqs(S, warm) ==
    {SubSeq(warm, 1, k) : k \in 0..1}
        \cup {warm \o r : r \in SeqsUpTo(S, MaxLen)}

\* The state at line 131 for a group of one run: x_steps and values hold one
\* row each.  The two may differ in length (line 136 takes the shorter).
InitAlign ==
    /\ pc = "align"
    /\ \E xs \in RawSeqs(StepValues, WarmSteps) : x_steps = <<xs>>
    /\ \E vs \in RawSeqs(SampleValues, WarmValues) : values = <<vs>>
    /\ interpolated_y = Ok(<<>>)
    /\ experiments = <<>>
    /\ extracted = Raise("none")
    /\ y_mean = <<>>
    /\ y_var = <<>>
    /\ ClipUnused
    /\ MainUnused

\* Lines 131-153: the loop over the rows.
AlignRun ==
    /\ pc = "align"
    /\ interpolated_y' = InterpolatedY(x_steps, values, Grid)
    /\ pc' = IF interpolated_y'.err = "none" THEN "aligned" ELSE "raised"
    /\ UNCHANGED <<experiments, x_steps, values, extracted, y_mean, y_var>>
    /\ UNCHANGED <<clipVars, mainVars>>

NextAlign == AlignRun

SpecAlign == InitAlign /\ [][NextAlign]_vars

-----------------------------------------------------------------------------
(* aggregate, lines 162-179: the result cache *)

\* The pickle file is a list of integers.  A mapping (one (x, y) pair per
\* PLOTS entry, in the order of insertion) is written as
\*   number of keys, then per key: len(x), x, len(y), per row: len(row), row.

RECURSIVE Flatten(_)
Flatten(ss) == IF ss = <<>> THEN <<>> ELSE Head(ss) \o Flatten(Tail(ss))

DumpList(s) == <<Len(s)>> \o s
DumpRows(y) == <<Len(y)>> \o Flatten([n \in 1..Len(y) |-> DumpList(y[n])])
DumpKey(interpolated_key) == DumpList(interpolated_key.x) \o DumpRows(interpolated_key.y)

\* pickle.dump(interpolated_keys, fobj), lines 175-176.
Dump(mapping) ==
    <<Len(mapping)>> \o Flatten([t \in 1..Len(mapping) |-> DumpKey(mapping[t])])

\* Readers: each takes the bytes left and returns what it read and the rest.
LoadList(bytes) ==
    [val |-> SubSeq(bytes, 2, 1 + bytes[1]),
     rest |-> SubSeq(bytes, 2 + bytes[1], Len(bytes))]

RECURSIVE LoadLists(_, _)
LoadLists(bytes, count) ==
    IF count = 0
    THEN [val |-> <<>>, rest |-> bytes]
    ELSE LET first  == LoadList(bytes)
             others == LoadLists(first.rest, count - 1)
         IN  [val |-> <<first.val>> \o others.val, rest |-> others.rest]

LoadRows(bytes) == LoadLists(Tail(bytes), bytes[1])

LoadKey(bytes) ==
    LET x == LoadList(bytes)
        y == LoadRows(x.rest)
    IN  [val |-> [x |-> x.val, y |-> y.val], rest |-> y.rest]

RECURSIVE LoadKeys(_, _)
LoadKeys(bytes, count) ==
    IF count = 0
    THEN [val |-> <<>>, rest |-> bytes]
    ELSE LET first  == LoadKey(bytes)
             others == LoadKeys(first.rest, count - 1)
         IN  [val |-> <<first.val>> \o others.val, rest |-> others.rest]

\* pickle.load(fobj), lines 170-171.
Load(bytes) == LoadKeys(Tail(bytes), bytes[1]).val

\* Variant of IsCacheHit that tests for a regular file at the directory's path.
IsCacheHitIfFile(dirs, subpath) == FALSE

\* Line 169: os.path.isdir(cache_env).
IsCacheHit(dirs, subpath) == subpath \in dirs

\* Line 173: ensure_dir_exists(cache_env) creates the directory.
ensure_dir_exists(dirs, subpath) == dirs \cup {subpath}

NoFile == [exists |-> FALSE, bytes |-> <<>>]
File(bytes) == [exists |-> TRUE, bytes |-> bytes]
NotStored == [has |-> FALSE, val |-> <<>>]

-----------------------------------------------------------------------------
(* main, lines 287-344: the loop over the groups, then the image *)

\* Groups (subpaths) under the root directory.
NumGroups == 2
subpaths == [k \in 1..NumGroups |-> k]
Groups == 1..NumGroups

\* The runs a group's directory may hold.
LogOf3 == <<<<1, 0, 10>>, <<2, 100, 10>>, <<3, 200, 12>>>>
LogOf4 == <<<<1, 0, 10>>, <<1, 0, 10>>, <<2, 200, 14>>, <<3, 300, 16>>>>
RunOf(log) == [K \in {PLOTS[1].key} |-> log]
RunWithOtherKey == [K \in KeyNames |-> LogOf3]
GroupChoices ==
    { <<RunOf(LogOf3), RunOf(LogOf4)>>,      \* aligns
      <<RunOf(LogOf4)>>,                     \* aligns, to another mapping
      <<RunOf(LogOf3), RunWithOtherKey>> }   \* key sets differ: line 86 fails

Init ==
    /\ pc = "idle"
    /\ all_experiment_dirs \in [Groups -> GroupChoices]
    /\ cache_dirs = {}
    /\ cache_files = [g \in Groups |-> NoFile]
    /\ i = 0
    /\ interpolated_keys = <<>>
    /\ raised = "none"
    /\ saved = FALSE
    /\ aggregated = <<>>
    /\ extract_called = FALSE
    /\ stored = [g \in Groups |-> NotStored]
    /\ experiments = <<>>
    /\ x_steps = <<>>
    /\ values = <<>>
    /\ interpolated_y = Ok(<<>>)
    /\ extracted = Raise("none")
    /\ y_mean = <<>>
    /\ y_var = <<>>
    /\ ClipUnused

\* One invocation of the script begins: lines 287-320.
MainStart ==
    /\ pc \in {"idle", "done", "aborted"}
    /\ pc' = "loop"
    /\ i' = 1
    /\ raised' = "none"
    /\ saved' = FALSE
    /\ aggregated' = <<>>
    /\ interpolated_keys' = <<>>
    /\ extract_called' = FALSE
    /\ UNCHANGED <<all_experiment_dirs, cache_dirs, cache_files, stored>>
    /\ UNCHANGED groupVars

\* Variant of NextPosition that skips a failing group and goes on.
NextPositionSkipping(i_, err) == [pc |-> "loop", i |-> i_ + 1]

\* Lines 321-322: an exception leaves the loop and main; otherwise the loop
\* goes on with the next group.
NextPosition(i_, err) ==
    IF err # "none"
    THEN [pc |-> "aborted", i |-> i_]
    ELSE [pc |-> "loop", i |-> i_ + 1]

\* aggregate(path, subpaths[i], ...), lines 162-179, called at line 322.
\* The calls of plot (lines 178-179) draw on the axes and raise nothing.
Aggregate ==
    /\ pc = "loop"
    /\ i <= NumGroups
    /\ LET subpath == subpaths[i]
           hit     == IsCacheHit(cache_dirs, subpath)
           result  == IF hit
                      THEN IF cache_files[subpath].exists
                           THEN Ok(Load(cache_files[subpath].bytes))
                           ELSE Raise("FileNotFoundError")
                      ELSE Extract(all_experiment_dirs[subpath])
           next    == NextPosition(i, result.err)
       IN  /\ cache_dirs' = IF hit THEN cache_dirs
                            ELSE ensure_dir_exists(cache_dirs, subpath)
           /\ cache_files' = IF ~hit /\ result.err = "none"
                             THEN [cache_files EXCEPT ![subpath] = File(Dump(result.val))]
                             ELSE cache_files
           /\ stored' = IF ~hit /\ result.err = "none"
                        THEN [stored EXCEPT ![subpath] = [has |-> TRUE, val |-> result.val]]
                        ELSE stored
           /\ interpolated_keys' = IF result.err = "none" THEN result.val
                                   ELSE interpolated_keys
           /\ raised' = IF result.err = "none" THEN raised ELSE result.err
           /\ extract_called' = ~hit
           /\ aggregated' = Append(aggregated, subpath)
           /\ pc' = next.pc
           /\ i' = next.i
    /\ UNCHANGED <<all_experiment_dirs, saved>>
    /\ UNCHANGED groupVars

\* Lines 325-344: the legend, the layout and plt.savefig.
SaveFigure ==
    /\ pc = "loop"
    /\ i > NumGroups
    /\ saved' = TRUE
    /\ pc' = "done"
    /\ UNCHANGED <<all_experiment_dirs, cache_dirs, cache_files, i, interpolated_keys,
                   raised, aggregated, extract_called, stored>>
    /\ UNCHANGED groupVars

\* Between invocations the operator replaces the runs of a group.
ChangeRuns ==
    /\ pc # "loop"
    /\ \E g \in Groups, choice \in GroupChoices :
          /\ choice # all_experiment_dirs[g]
          /\ all_experiment_dirs' = [all_experiment_dirs EXCEPT ![g] = choice]
    /\ UNCHANGED <<pc, cache_dirs, cache_files, i, interpolated_keys, raised, saved,
                   aggregated, extract_called, stored>>
    /\ UNCHANGED groupVars

\* Between invocations the operator deletes a group's cache directory.
ClearCache ==
    /\ pc # "loop"
    /\ \E g \in cache_dirs :
          /\ cache_dirs' = cache_dirs \ {g}
          /\ cache_files' = [cache_files EXCEPT ![g] = NoFile]
          /\ stored' = [stored EXCEPT ![g] = NotStored]
    /\ UNCHANGED <<pc, all_experiment_dirs, i, interpolated_keys, raised, saved,
                   aggregated, extract_called>>
    /\ UNCHANGED groupVars

Next == MainStart \/ Aggregate \/ SaveFigure \/ ChangeRuns \/ ClearCache

Spec == Init /\ [][Next]_vars

-----------------------------------------------------------------------------
(* plot, lines 223-236: the envelope and the clip step (SpecClip) *)

\* Clip steps applied in SpecClip; range of the means and of the standard
\* deviations drawn.
MaxClips == 2
MaxAbs == 2
MaxStd == 1

Frac(n) == [num |-> n, den |-> 1]
FracLess(a, b) == a.num * b.den < b.num * a.den
FracEq(a, b) == a.num * b.den = b.num * a.den

\* np.minimum(y, c) and np.maximum(y, c), elementwise.
Minimum(y, c) ==
    [j \in 1..Len(y) |-> IF FracLess(c, y[j]) THEN [num |-> c.num, den |-> c.den] ELSE y[j]]
Maximum(y, c) ==
    [j \in 1..Len(y) |-> IF FracLess(y[j], c) THEN [num |-> c.num, den |-> c.den] ELSE y[j]]

\* "if clip_max:" is false for None and for 0.
Truthy(c) == c.set /\ c.num # 0

\* Variant of Clip that applies coeff (line 212) once more before clipping.
ClipRescaling(y, params_) ==
    LET again  == [j \in 1..Len(y) |-> [num |-> y[j].num * PLOTS[1].coeff_num,
                                        den |-> y[j].den * PLOTS[1].coeff_den]]
        capped == IF Truthy(params_.clip_max)
                  THEN Minimum(again, params_.clip_max) ELSE again
    IN  IF Truthy(params_.clip_min) THEN Maximum(capped, params_.clip_min) ELSE capped

\* Lines 226-236 on one of y_mean, y_plus_std, y_minus_std.
Clip(y, params_) ==
    LET capped == IF Truthy(params_.clip_max) THEN Minimum(y, params_.clip_max) ELSE y
    IN  IF Truthy(params_.clip_min) THEN Maximum(capped, params_.clip_min) ELSE capped

ClipSettings == {None} \cup {Number(n) : n \in {-1, 0, 1}}

\* The state at line 225: means and standard deviations (whole numbers
\* here), the envelope of lines 223-224, any clip settings.
InitClip ==
    /\ pc = "clip"
    /\ params \in [clip_max : ClipSettings, clip_min : ClipSettings]
    /\ \E m \in [1..Len(Grid) -> (0 - MaxAbs)..MaxAbs], sd \in [1..Len(Grid) -> 0..MaxStd] :
          /\ y_mean = [j \in 1..Len(Grid) |-> Frac(m[j])]
          /\ y_var = [j \in 1..Len(Grid) |-> Frac(sd[j] * sd[j])]
          /\ y_plus_std = [j \in 1..Len(Grid) |-> Frac(m[j] + sd[j])]
          /\ y_minus_std = [j \in 1..Len(Grid) |-> Frac(m[j] - sd[j])]
    /\ clips = 0
    /\ experiments = <<>>
    /\ x_steps = <<>>
    /\ values = <<>>
    /\ interpolated_y = Ok(<<>>)
    /\ extracted = Raise("none")
    /\ MainUnused

\* Lines 226-236, applied to the vectors as they are.
ClipStep ==
    /\ pc = "clip"
    /\ clips < MaxClips
    /\ y_mean' = Clip(y_mean, params)
    /\ y_plus_std' = Clip(y_plus_std, params)
    /\ y_minus_std' = Clip(y_minus_std, params)
    /\ clips' = clips + 1
    /\ UNCHANGED <<pc, params, y_var, experiments, x_steps, values, interpolated_y,
                   extracted, mainVars>>

NextClip == ClipStep

SpecClip == InitClip /\ [][NextClip]_vars

-----------------------------------------------------------------------------
(* Claims about one row of the alignment (SpecAlign) *)

RetainedSteps == Truncate(x_steps[1], x_steps[1], values[1])
RetainedValues == Truncate(values[1], x_steps[1], values[1])
Row == interpolated_y.val[1]
Last(s) == s[Len(s)]
IsOrdered(s) == \A k \in 1..(Len(s) - 1) : s[k] <= s[k + 1]

C1_Case ==
    /\ pc # "align"
    /\ RetainedSteps = <<0, 100, 200, 300>>
    /\ RetainedValues = <<10, 12, 14, 16>>
    /\ Grid = <<0, 150, 300>>

\* C1 as stated: retained samples [(0,10),(100,12),(200,14),(300,16)] on the
\* grid [0,150,300] align to [10,13,16] (grid step 150 averages the values
\* recorded at steps 100 and 200).
C1_AlignsTo_10_13_16 ==
    C1_Case => interpolated_y = Ok(<< <<10, 13, 16>> >>)

\* C1 amended: the same samples on the same grid align to [10,15,16]; at
\* grid step 150 the cursor stands on step 200, the first step not below
\* 150, and the value is the average of the values at steps 200 and 300.
C1_AlignsTo_10_15_16 ==
    C1_Case => interpolated_y = Ok(<< <<10, 15, 16>> >>)

C1_Witness ==
    C1_Case /\ pc = "aligned" /\ Len(Row) = 3

\* C2 as stated: for every number N >= 0 of retained samples the row's loop
\* completes and yields exactly one value per grid step.
C2_AlwaysOneValuePerGridStep ==
    pc # "align" =>
        /\ interpolated_y.err = "none"
        /\ Len(Row) = Len(Grid)

C3_Case ==
    /\ pc # "align"
    /\ Len(RetainedSteps) >= 1
    /\ IsOrdered(RetainedSteps)
    /\ Last(Grid) >= Last(RetainedSteps)

\* C3 as stated: for an ordered step sequence (repeated steps allowed) with
\* at least one retained sample, when the last grid step is at or beyond the
\* final recorded step, the value at the last grid step is the final
\* recorded value.
C3_LastGridStepIsFinalValue ==
    C3_Case =>
        /\ interpolated_y.err = "none"
        /\ Last(Row) = Last(RetainedValues)

C3_EarlierStepsBelowLastGridStep ==
    \A k \in 1..(Len(RetainedSteps) - 1) : RetainedSteps[k] < Last(Grid)

\* C3 amended: the same, provided every retained sample but the last has a
\* step strictly below the last grid step (so always when the last grid step
\* is strictly beyond the final step, and when it equals the final step only
\* if no earlier sample repeats that step).
C3_LastGridStepIsFinalValueUnlessRepeated ==
    (C3_Case /\ C3_EarlierStepsBelowLastGridStep) =>
        /\ interpolated_y.err = "none"
        /\ Last(Row) = Last(RetainedValues)

\* The last grid step equals the final recorded step, and the value before
\* the final one differs from it, so a midpoint would show.
C3_Witness ==
    /\ C3_Case
    /\ C3_EarlierStepsBelowLastGridStep
    /\ pc = "aligned"
    /\ Len(RetainedSteps) >= 2
    /\ Last(RetainedSteps) = Last(Grid)
    /\ RetainedValues[Len(RetainedValues) - 1] # Last(RetainedValues)
    /\ Last(Row) = Last(RetainedValues)

-----------------------------------------------------------------------------
(* Claims about extract on a group (SpecKeys, SpecExtract) *)

Extracted == pc \in {"extracted", "raised", "plotted"}

\* C4 as stated: if two runs of the group have different key sets (an empty
\* key set included), extract raises and returns no mapping.
C4_AnyKeyMismatchRaises ==
    (/\ Extracted
     /\ \E a, b \in 1..Len(experiments) : Keys(experiments[a]) # Keys(experiments[b]))
        => extracted.err # "none"

\* C4 amended: if two runs of the group have different key sets, both
\* non-empty, extract fails the assertion of line 86 and returns no mapping
\* (runs without keys are filtered out before the comparison).
C4_NonEmptyKeyMismatchRaises ==
    (/\ Extracted
     /\ \E a, b \in 1..Len(experiments) :
            /\ Keys(experiments[a]) # {}
            /\ Keys(experiments[b]) # {}
            /\ Keys(experiments[a]) # Keys(experiments[b]))
        => (extracted.err = "AssertionError" /\ pc = "raised")

\* Two runs that both log the plotted key, with three samples each, and
\* differ in another key: only the assertion stops the extraction.
C4_Witness ==
    /\ pc = "raised"
    /\ extracted.err = "AssertionError"
    /\ Len(experiments) = 2
    /\ Keys(experiments[1]) = {PLOTS[1].key}
    /\ Keys(experiments[2]) = KeyNames
    /\ \A n \in 1..2 : Len(experiments[n][PLOTS[1].key]) = 3

Permuted(experiments_, p) == [n \in 1..Len(experiments_) |-> experiments_[p[n]]]

\* C5 as stated: for every permutation of the group's runs, extract followed
\* by plot's aggregation gives the mean and standard deviation vectors of
\* the unpermuted list.
C5_PermutationInvariant ==
    pc = "plotted" =>
        \A p \in Permutations(1..Len(experiments)) :
            LET r == Extract(Permuted(experiments, p))
            IN  /\ r.err = "none"
                /\ YMean(r.val[1], PLOTS[1]) = y_mean
                /\ YVar(r.val[1], PLOTS[1]) = y_var

\* C10 as stated: the step sequence used for row i is run i's own logged
\* step sequence, in the sample order of run i's values.
C10_RowUsesOwnSteps ==
    pc \in {"extracted", "plotted"} =>
        \A n \in 1..Len(x_steps) :
            x_steps[n] = StepsOf(ScalarAccumulators(experiments)[n][PLOTS[1].key])

-----------------------------------------------------------------------------
(* Claims about aggregate and main (Spec) *)

\* C6: once a call of aggregate has computed and stored a group's mapping,
\* every later call for that group, while the cache directory is still there,
\* loads that very mapping and does not call extract, whatever the group's
\* runs are by then.
C6_CacheHitLoadsStoredMapping ==
    [][\A g \in Groups :
          (pc = "loop" /\ i <= NumGroups /\ subpaths[i] = g /\ stored[g].has)
              => /\ interpolated_keys' = stored[g].val
                 /\ ~extract_called'
                 /\ raised' = "none"]_vars

\* A cache hit after the group's runs were replaced by runs that align to
\* another mapping.
C6_Witness ==
    /\ aggregated # <<>>
    /\ ~extract_called
    /\ raised = "none"
    /\ LET g == aggregated[Len(aggregated)]
       IN  /\ stored[g].has
           /\ interpolated_keys = stored[g].val
           /\ Extract(all_experiment_dirs[g]).err = "none"
           /\ Extract(all_experiment_dirs[g]).val # stored[g].val

\* C8: when the key assertion of extract fails for a group, the invocation
\* ends there: the groups aggregated are those up to the failing one, no
\* later group is aggregated, and the image is not written.
C8_AssertionEndsInvocation ==
    raised = "AssertionError" =>
        /\ pc = "aborted"
        /\ ~saved
        /\ aggregated = SubSeq(subpaths, 1, i)

\* The first group fails the assertion while a later group is still to come.
C8_Witness ==
    /\ raised = "AssertionError"
    /\ pc = "aborted"
    /\ i = 1
    /\ i < NumGroups
    /\ aggregated = <<subpaths[1]>>
    /\ ~saved

\* C9 as stated: whenever a group's cache directory exists it holds the
\* group's pickle file.
C9_CacheDirHoldsFile ==
    \A g \in Groups : g \in cache_dirs => cache_files[g].exists

-----------------------------------------------------------------------------
(* Claim about plot's clip step (SpecClip) *)

SameVector(a, b) == Len(a) = Len(b) /\ \A j \in 1..Len(a) : FracEq(a[j], b[j])

\* C7: for every vector and every pair of clip settings, the clip step
\* applied to its own result changes neither the mean nor the two bounds of
\* the envelope.
C7_ClipIsIdempotent ==
    [][clips >= 1 =>
          /\ SameVector(y_mean', y_mean)
          /\ SameVector(y_plus_std', y_plus_std)
          /\ SameVector(y_minus_std', y_minus_std)]_vars

\* Both settings in force, the minimum above the maximum, the clip applied
\* twice: everything sits on clip_min.
C7_Witness ==
    /\ clips = 2
    /\ Truthy(params.clip_max)
    /\ Truthy(params.clip_min)
    /\ FracLess(params.clip_max, params.clip_min)
    /\ \A j \in 1..Len(y_mean) :
          /\ FracEq(y_mean[j], params.clip_min)
          /\ FracEq(y_plus_std[j], params.clip_min)
          /\ FracEq(y_minus_std[j], params.clip_min)

====
